---- MODULE Spec2Model ----
(***************************************************************************)
(* Post-processing pipeline of the AI-Career-Helper: section extraction    *)
(* (split_sections), the three quality gates and the artifact writer of    *)
(* src/src/utils/postprocess.py, with ensure_dir of src/src/utils/io.py    *)
(* and the caller's pointer write of src/src/tailor.py.                    *)
(*                                                                         *)
(* A Python str is a sequence of one-character strings.  The characters    *)
(* U+2013 and U+2026 of the source are the atoms EnDash and Ellipsis.      *)
(* The texts of the model contain "\n" as their only line boundary and     *)
(* " ", "\t", "\n" as their only white space.                              *)
(***************************************************************************)
EXTENDS Integers, Sequences, FiniteSets, TLC

VARIABLES
    text,       \* SpecText: the string handed to split_sections / the gates
    step,       \* SpecText: position in postprocess_and_write, lines 138-143
    direct,     \* SpecText: TRUE when the gates are called on text itself
    sections,   \* SpecText: (bullets_md, letter_md, gaps_md) before the gates
    regions,    \* SpecText: for each key, <<m.start(1), m.end(1)>> after strip
    gated,      \* SpecText: the gates' return values
    target,     \* SpecText: target_min, target_max given to enforce_letter_rules
    clock,      \* Spec: the wall clock, in ticks
    run,        \* Spec: for each caller, its place in postprocess_and_write
    dirs,       \* Spec, SpecDir: the directories on disk
    files,      \* Spec: the files on disk, by path
    ensured,    \* SpecDir: the calls of ensure_dir made so far, by path
    llm,        \* SpecLlm: the frame of run_llm
    batch       \* SpecBatch: the frame of main of batch.py

textVars == <<text, step, direct, sections, regions, gated, target>>

runVars == <<clock, run, dirs, files>>

\* the variables of SpecDir (with dirs), SpecLlm and SpecBatch
sideVars == <<ensured, llm, batch>>

vars == <<text, step, direct, sections, regions, gated, target,
          clock, run, dirs, files, ensured, llm, batch>>

----------------------------------------------------------------------------
(* Bounds of the model.                                                    *)

\* texts are concatenations of at most MaxSegs segments
MaxSegs == 3

\* enforce_letter_rules is called with target_max in 0..MaxTarget
MaxTarget == 2

\* the wall clock runs from 0 to MaxClock ticks
MaxClock == 2

\* ticks of the wall clock in one second
TicksPerSecond == 2

\* ensure_dir is called at most MaxCalls times on one path
MaxCalls == 2

\* run_llm is called with retries in -1..MaxRetries
MaxRetries == 2

\* the CSV of the batch runner has at most MaxRows rows after its header
MaxRows == 2

\* the company and role names handed to output_folder have at most MaxName
\* characters
MaxName == 2

----------------------------------------------------------------------------
(* Characters and Python string helpers.                                   *)

EnDash == "U+2013"

Ellipsis == "U+2026"

Arrow == "U+2192"

\* what \s matches and str.strip() removes
WhiteSpace == {" ", "\t", "\n"}

UpperLetters ==
  <<"A","B","C","D","E","F","G","H","I","J","K","L","M",
    "N","O","P","Q","R","S","T","U","V","W","X","Y","Z">>

LowerLetters ==
  <<"a","b","c","d","e","f","g","h","i","j","k","l","m",
    "n","o","p","q","r","s","t","u","v","w","x","y","z">>

Digits == <<"0","1","2","3","4","5","6","7","8","9">>

Range(f) == {f[i] : i \in DOMAIN f}

\* case folding of the (?i) flag
Lower(c) ==
  IF c \in Range(UpperLetters)
    THEN LowerLetters[CHOOSE i \in DOMAIN UpperLetters : UpperLetters[i] = c]
    ELSE c

Min(a, b) == IF a < b THEN a ELSE b

\* the value None, which is no str: a sequence that holds no character
None == <<"None">>

\* x or ""
OrEmpty(x) == IF x = None THEN <<>> ELSE x

\* the least element of a non-empty set of numbers
Least(S) == CHOOSE x \in S : \A y \in S : x <= y

\* s[:n] for n >= 0
Take(s, n) == SubSeq(s, 1, Min(n, Len(s)))

RECURSIVE SkipSpace(_, _, _)
\* first position q in p..e of t that holds no white space, e when there is none
SkipSpace(t, p, e) ==
  IF p >= e \/ t[p] \notin WhiteSpace THEN p ELSE SkipSpace(t, p + 1, e)

RECURSIVE SkipSpaceBack(_, _, _)
\* last position q in p..e of t such that t[q-1] is no white space, p when none
SkipSpaceBack(t, p, e) ==
  IF e <= p \/ t[e - 1] \notin WhiteSpace THEN e ELSE SkipSpaceBack(t, p, e - 1)

\* the span from lo to the end of t[lo..e-1] without its trailing white space
SpanFrom(t, lo, e) == <<lo, SkipSpaceBack(t, lo, e)>>

\* the span <<lo, hi>> (hi exclusive) of t[p..e-1] with surrounding white space
\* removed
StripSpan(t, p, e) == SpanFrom(t, SkipSpace(t, p, e), e)

\* the characters of span sp of t
Slice(t, sp) == SubSeq(t, sp[1], sp[2] - 1)

\* str.strip()
Strip(s) == Slice(s, StripSpan(s, 1, Len(s) + 1))

\* str.startswith for a one-character prefix
StartsWith(s, c) == Len(s) >= 1 /\ s[1] = c

\* the position of the "\n" that ends the line of position p, Len(t) + 1 when
\* the line is the last one and has none
LineEnd(t, p) == Least({q \in p..Len(t) : t[q] = "\n"} \cup {Len(t) + 1})

RECURSIVE SplitLines(_)
\* str.splitlines(): a final line boundary opens no further line
SplitLines(s) ==
  IF s = <<>> THEN <<>>
  ELSE LET k == LineEnd(s, 1)
       IN  <<SubSeq(s, 1, k - 1)>> \o SplitLines(SubSeq(s, k + 1, Len(s)))

RECURSIVE Join(_, _)
\* sep.join(parts)
Join(sep, parts) ==
  IF parts = <<>> THEN <<>>
  ELSE IF Len(parts) = 1 THEN parts[1]
  ELSE parts[1] \o sep \o Join(sep, Tail(parts))

\* the position after the run of characters that are no white space from p
WordEnd(s, p) == Least({q \in p..Len(s) : s[q] \in WhiteSpace} \cup {Len(s) + 1})

RECURSIVE FindAllWords(_)
\* re.findall(r"\S+", s): the maximal runs of non-white-space characters
FindAllWords(s) ==
  LET b == SkipSpace(s, 1, Len(s) + 1)
  IN  IF b = Len(s) + 1 THEN <<>>
      ELSE LET e == WordEnd(s, b)
           IN  <<SubSeq(s, b, e - 1)>> \o FindAllWords(SubSeq(s, e, Len(s)))

----------------------------------------------------------------------------
(* Section parsing: SECTION_PATTERNS and split_sections.                   *)

Keys == {"bullets", "letter", "gaps"}

\* the literal words of the three patterns, folded to lower case by (?i)
SECTION_PATTERNS ==
  [ bullets |-> << <<"t","a","i","l","o","r","e","d">>,
                   <<"b","u","l","l","e","t","s">> >>,
    letter  |-> << <<"c","o","v","e","r">>,
                   <<"l","e","t","t","e","r">> >>,
    gaps    |-> << <<"s","k","i","l","l","s">>,
                   <<"g","a","p","s">> >> ]

\* the words of the optional group (?:\s*&\s*Next\s*Steps)? of the gaps pattern
GAPS_SUFFIX == << <<"&">>, <<"n","e","x","t">>, <<"s","t","e","p","s">> >>

\* ^ under (?m): the start of the text or just after a "\n"
AtLineStart(t, p) == p = 1 \/ t[p - 1] = "\n"

\* a literal w at position p of t, ignoring case: the position after it, 0 when
\* it does not match
MatchLiteral(t, p, w) ==
  IF /\ p + Len(w) - 1 <= Len(t)
     /\ \A k \in 1..Len(w) : Lower(t[p + k - 1]) = w[k]
    THEN p + Len(w)
    ELSE 0

\* \s* (greedy) from p: the literals that follow the \s* of the patterns hold no
\* white space, so only the longest run can lead to a match
MatchSpaces(t, p) == SkipSpace(t, p, Len(t) + 1)

\* \s* and then the literal w, from p: the position after them; 0 when they do
\* not match or when p is 0, the failure of what comes before
MatchSpacesLiteral(t, p, w) ==
  IF p = 0 THEN 0 ELSE MatchLiteral(t, MatchSpaces(t, p), w)

\* \s+ and then the literal w, from p: as MatchSpacesLiteral, with at least one
\* white space character
MatchSpaces1Literal(t, p, w) ==
  IF p = 0 \/ p > Len(t) THEN 0
  ELSE IF t[p] \notin WhiteSpace THEN 0
  ELSE MatchLiteral(t, MatchSpaces(t, p), w)

\* an optional group: the position q after it when it matched, p when not
Optional(q, p) == IF q = 0 THEN p ELSE q

\* (?:\s*&\s*Next\s*Steps)? from p: the position after the group when it
\* matches, p when it does not (the rest of the pattern matches after either)
MatchGapsSuffix(t, p) ==
  Optional(
    MatchSpacesLiteral(t,
      MatchSpacesLiteral(t,
        MatchSpacesLiteral(t, p, GAPS_SUFFIX[1]),
        GAPS_SUFFIX[2]),
      GAPS_SUFFIX[3]),
    p)

\* the end of the heading words: the optional group follows those of the gaps
\* pattern; 0 when the words did not match
MatchSuffix(key, t, p) ==
  IF p = 0 THEN 0
  ELSE IF key = "gaps" THEN MatchGapsSuffix(t, p)
  ELSE p

\* MatchHeading with patterns that ask for one "#" only
MatchHeading_OneHash(key, t, p) ==
  IF ~AtLineStart(t, p) THEN 0
  ELSE
    MatchSuffix(key, t,
      MatchSpaces1Literal(t,
        MatchSpacesLiteral(t,
          MatchSpacesLiteral(t, p, <<"#">>),
          SECTION_PATTERNS[key][1]),
        SECTION_PATTERNS[key][2]))

\* ^\s*##\s*Word1\s+Word2 (and the gaps suffix) tried at position p: the
\* position after the heading words, 0 when the heading does not match at p
MatchHeading(key, t, p) ==
  IF ~AtLineStart(t, p) THEN 0
  ELSE
    MatchSuffix(key, t,
      MatchSpaces1Literal(t,
        MatchSpacesLiteral(t,
          MatchSpacesLiteral(t, p, <<"#", "#">>),
          SECTION_PATTERNS[key][1]),
        SECTION_PATTERNS[key][2]))

\* LookaheadStop with a lookahead that stops at the three section headings only
LookaheadStop_SectionsOnly(t, e) ==
  \/ e = Len(t) + 1
  \/ \E key \in Keys : MatchHeading(key, t, e) # 0

\* the lookahead (?=^\s*##\s+|$\Z) at position e
LookaheadStop(t, e) ==
  \/ e = Len(t) + 1
  \/ /\ AtLineStart(t, e)
     /\ LET h == MatchLiteral(t, MatchSpaces(t, e), <<"#", "#">>)
        IN  h # 0 /\ h <= Len(t) /\ t[h] \in WhiteSpace

\* the first position from j where the lookahead holds
FirstStop(t, j) == Least({q \in j..(Len(t) + 1) : LookaheadStop(t, q)})

\* \s*(.*?)(?=...) after the heading words: <<m.start(1), m.end(1)>>; the lazy
\* group ends at the first position from its start where the lookahead holds
MatchBody(t, p) ==
  LET j == MatchSpaces(t, p)
  IN  <<j, FirstStop(t, j)>>

\* the heading tried at the least of the positions S: the position after the
\* heading words, 0 when S is empty
MatchLeftmost(key, t, S) ==
  IF S = {} THEN 0 ELSE MatchHeading(key, t, Least(S))

\* the heading tried at p, p + 1, ...: the position after the heading words of
\* the leftmost match, 0 when the heading matches nowhere
SearchFrom(key, t, p) ==
  MatchLeftmost(key, t, {q \in p..(Len(t) + 1) : MatchHeading(key, t, q) # 0})

\* the rest of the pattern after the heading words end at w
MatchRest(t, w) == IF w = 0 THEN <<0, 0>> ELSE MatchBody(t, w)

\* pattern.search(t): the match at the leftmost position where the pattern
\* matches, as <<m.start(1), m.end(1)>>; <<0, 0>> for None
Search(key, t) == MatchRest(t, SearchFrom(key, t, 1))

\* the span of m.group(1).strip() for the match m, <<0, 0>> for None
GroupSpan(t, m) == IF m = <<0, 0>> THEN <<0, 0>> ELSE StripSpan(t, m[1], m[2])

\* the span of m.group(1).strip() in the text, <<0, 0>> when there is no match
grabSpan(key, t) == GroupSpan(t, Search(key, t))

\* SpanText that hands back the text when nothing matched
SpanText_WholeText(t, sp) == IF sp = <<0, 0>> THEN t ELSE SubSeq(t, sp[1], sp[2] - 1)

\* the text of a span, "" for <<0, 0>>
SpanText(t, sp) == IF sp = <<0, 0>> THEN <<>> ELSE SubSeq(t, sp[1], sp[2] - 1)

\* grab(key): the search is in model_output or "", and the result is
\* m.group(1).strip() if m else ""
grab(key, t) == SpanText(OrEmpty(t), grabSpan(key, OrEmpty(t)))

split_sections(model_output) ==
  [ bullets |-> grab("bullets", model_output),
    letter  |-> grab("letter", model_output),
    gaps    |-> grab("gaps", model_output) ]

----------------------------------------------------------------------------
(* Quality gates.                                                          *)

BULLETS_CAP == 6

BULLETS_FLOOR == 3

LINE_CAP == 240

GAPS_CAP == 5

GAPS_FLOOR == 2

TARGET_MIN_DEFAULT == 300

TARGET_MAX_DEFAULT == 350

BULLETS_NOTE ==
  <<"-"," ","[","N","e","e","d","s"," ","m","o","r","e"," ","b","u","l","l","e",
    "t","s"," ","m","a","p","p","e","d"," ","t","o"," ","m","u","s","t","-","h",
    "a","v","e","s","]"," ","(","e","d","i","t","o","r"," ","n","o","t","e",")">>

GAPS_NOTE ==
  <<"-"," ","[","A","d","d"," ","u","p"," ","t","o"," ","2",EnDash,"5"," ","s",
    "k","i","l","l","s"," ","g","a","p","s"," ","h","e","r","e","]"," ","(","e",
    "d","i","t","o","r"," ","n","o","t","e",")">>

RECURSIVE StrippedItems(_)
\* [ln.strip() for ln in lines if ln.strip().startswith("-")]
StrippedItems(lines) ==
  IF lines = <<>> THEN <<>>
  ELSE LET ln == Strip(Head(lines))
       IN  (IF StartsWith(ln, "-") THEN <<ln>> ELSE <<>>)
             \o StrippedItems(Tail(lines))

\* [ln.strip() for ln in s.splitlines() if ln.strip().startswith("-")]
ListItems(s) == StrippedItems(SplitLines(s))

RECURSIVE PadTo(_, _, _)
PadTo(lines, n, note) ==
  IF Len(lines) >= n THEN lines ELSE PadTo(Append(lines, note), n, note)

\* enforce_bullets_rules with "while len(lines) < 3" for "if len(lines) < 3"
enforce_bullets_rules_padded(bullets_md) ==
  LET lines  == Take(ListItems(bullets_md), BULLETS_CAP)
      floor  == PadTo(lines, BULLETS_FLOOR, BULLETS_NOTE)
      capped == [i \in DOMAIN floor |-> Take(floor[i], LINE_CAP)]
  IN  Join(<<"\n">>, capped)

\* enforce_bullets_rules with the cap of 6 put on the lines before the filter
enforce_bullets_rules_capfirst(bullets_md) ==
  LET lines  == StrippedItems(Take(SplitLines(bullets_md), BULLETS_CAP))
      floor  == IF Len(lines) < BULLETS_FLOOR
                  THEN Append(lines, BULLETS_NOTE) ELSE lines
      capped == [i \in DOMAIN floor |-> Take(floor[i], LINE_CAP)]
  IN  Join(<<"\n">>, capped)

enforce_bullets_rules(bullets_md) ==
  LET lines  == Take(ListItems(bullets_md), BULLETS_CAP)
      floor  == IF Len(lines) < BULLETS_FLOOR
                  THEN Append(lines, BULLETS_NOTE) ELSE lines
      capped == [i \in DOMAIN floor |-> Take(floor[i], LINE_CAP)]
  IN  Join(<<"\n">>, capped)

\* enforce_letter_rules with "len(words) >= target_max" for ">"
enforce_letter_rules_ge(letter_md, target_min, target_max) ==
  LET words == FindAllWords(letter_md)
      cut   == IF Len(words) >= target_max
                 THEN Join(<<" ">>, Take(words, target_max)) \o <<" ", Ellipsis>>
                 ELSE letter_md
  IN  Strip(cut)

enforce_letter_rules(letter_md, target_min, target_max) ==
  LET words == FindAllWords(letter_md)
      cut   == IF Len(words) > target_max
                 THEN Join(<<" ">>, Take(words, target_max)) \o <<" ", Ellipsis>>
                 ELSE letter_md
  IN  Strip(cut)

enforce_gaps_rules(gaps_md) ==
  LET items == Take(ListItems(gaps_md), GAPS_CAP)
      floor == IF Len(items) < GAPS_FLOOR
                 THEN Append(items, GAPS_NOTE) ELSE items
  IN  Join(<<"\n">>, floor)

\* what split_sections and the gates have returned before they are called
NoSections == [bullets |-> <<>>, letter |-> <<>>, gaps |-> <<>>]

NoRegions == [k \in Keys |-> <<0, 0>>]

NoTarget == [min |-> TARGET_MIN_DEFAULT, max |-> TARGET_MAX_DEFAULT]

----------------------------------------------------------------------------
(* Texts of the model: concatenations of segments.                         *)

SegBullets ==
  <<"#","#"," ","T","a","i","l","o","r","e","d"," ","B","u","l","l","e","t","s","\n">>

SegLetter ==
  <<"#","#"," ","C","o","v","e","r"," ","L","e","t","t","e","r","\n">>

SegGaps ==
  <<"#","#"," ","S","k","i","l","l","s"," ","G","a","p","s","\n">>

SegLetterTight ==
  <<"#","#","c","o","v","e","r"," ","l","e","t","t","e","r","\n">>

SegGapsIndented ==
  <<" "," ","#","#"," ","s","k","i","l","l","s"," ","g","a","p","s"," ","&"," ",
    "n","e","x","t"," ","s","t","e","p","s","\n">>

SegNotes ==
  <<"#","#"," ","N","o","t","e","s","\n">>

SegItem ==
  <<"-"," ","a","\n">>

SegItems ==
  <<"-"," ","b","\n"," ","-"," ","c","\n","-"," ","d","\n","-"," ","e","\n">>

SegProse ==
  <<"H","i"," "," ","a","l","l","\n","\n">>

SegBulletsTail ==
  <<"#","#"," ","T","a","i","l","o","r","e","d"," ","B","u","l","l","e","t","s",
    ":"," ","v","2","\n">>

Segments ==
  << SegBullets, SegLetter, SegGaps, SegLetterTight, SegGapsIndented,
     SegNotes, SegItem, SegItems, SegProse, SegBulletsTail >>

RECURSIVE Concat(_)
Concat(parts) == IF parts = <<>> THEN <<>> ELSE Head(parts) \o Concat(Tail(parts))

SegmentTexts ==
  { Concat([i \in 1..n |-> Segments[pick[i]]]) :
      n \in 0..MaxSegs, pick \in [1..MaxSegs -> DOMAIN Segments] }

\* a list line of 241 characters whose 240th is a space
LongItem ==
  <<"-", " ">> \o [i \in 1..(LINE_CAP - 3) |-> "x"] \o <<" ", "y", "\n">>

\* three list lines, the last one long
TextLongBullet == SegBullets \o SegItem \o SegItem \o LongItem

\* ten list lines, the fifth one long
TextTenItems == SegBullets \o SegItems \o LongItem \o SegItems \o SegItem

SegGapsNextSteps ==
  <<"#","#"," ","S","k","i","l","l","s"," ","G","a","p","s"," ","&"," ","N","e",
    "x","t"," ","S","t","e","p","s","\n">>

\* the three sections under their canonical headings
Blocks ==
  <<SegBullets \o SegItems, SegLetter \o SegProse, SegGapsNextSteps \o SegItem>>

\* the six orders of the three sections
Orders == {p \in [1..3 -> 1..3] : \A i, j \in 1..3 : p[i] = p[j] => i = j}

\* what else the model may emit among the sections: nothing, a section of its
\* own, a second cover letter under a heading without the space
Intruders == << <<>>, SegNotes \o SegItem, SegLetterTight \o SegProse >>

\* the three sections in order p, with x after the first at of them
Arrange(p, x, at) ==
  Concat([i \in 1..6 |->
            IF i % 2 = 0 THEN Blocks[p[i \div 2]]
            ELSE IF at = i \div 2 THEN x ELSE <<>>])
    \o (IF at = 3 THEN x ELSE <<>>)

ArrangedTexts ==
  {Arrange(p, Intruders[x], at) : p \in Orders, x \in DOMAIN Intruders, at \in 0..3}

Texts ==
  SegmentTexts \cup ArrangedTexts \cup {TextLongBullet, TextTenItems, None}

----------------------------------------------------------------------------
(* Writing artifacts: slug, output_folder, ensure_dir, write_artifacts and  *)
(* the rest of postprocess_and_write, run by two callers side by side.      *)
(* A path is the sequence of its components.  A file is written in one     *)
(* step (open, write, close).                                              *)

\* the callers of postprocess_and_write
Runs == {1, 2}

OUTPUTS == <<"o","u","t","p","u","t","s">>

BULLETS_MD == <<"b","u","l","l","e","t","s",".","m","d">>

COVER_LETTER_MD == <<"c","o","v","e","r","_","l","e","t","t","e","r",".","m","d">>

SKILLS_GAPS_MD == <<"s","k","i","l","l","s","_","g","a","p","s",".","m","d">>

RUN_METADATA_JSON ==
  <<"r","u","n","_","m","e","t","a","d","a","t","a",".","j","s","o","n">>

HEAD_BULLETS ==
  <<"#","#"," ","T","a","i","l","o","r","e","d"," ","B","u","l","l","e","t","s","\n">>

HEAD_LETTER ==
  <<"#","#"," ","C","o","v","e","r"," ","L","e","t","t","e","r","\n">>

HEAD_GAPS ==
  <<"#","#"," ","S","k","i","l","l","s"," ","G","a","p","s"," ","&"," ","N","e",
    "x","t"," ","S","t","e","p","s","\n">>

\* the four files of write_artifacts, in the order they are written
ArtifactFiles == <<BULLETS_MD, COVER_LETTER_MD, SKILLS_GAPS_MD, RUN_METADATA_JSON>>

\* "outputs/run_metadata.json"
PointerPath == <<OUTPUTS, RUN_METADATA_JSON>>

\* the class [A-Za-z0-9.]: a slug that lets the "." through
AlNum_WithDot ==
  Range(UpperLetters) \cup Range(LowerLetters) \cup Range(Digits) \cup {"."}

\* the class [A-Za-z0-9] of line 95
AlNum == Range(UpperLetters) \cup Range(LowerLetters) \cup Range(Digits)

RECURSIVE SubRuns(_)
\* re.sub(r"[^A-Za-z0-9]+", "-", s): each maximal run of other characters
\* becomes one "-"
SubRuns(s) ==
  IF s = <<>> THEN <<>>
  ELSE IF Head(s) \in AlNum THEN <<Head(s)>> \o SubRuns(Tail(s))
  ELSE LET k == CHOOSE q \in 2..(Len(s) + 1) :
                  /\ \A i \in 1..(q - 1) : s[i] \notin AlNum
                  /\ q = Len(s) + 1 \/ s[q] \in AlNum
       IN  <<"-">> \o SubRuns(SubSeq(s, k, Len(s)))

\* str.strip("-")
StripDashes(s) ==
  LET lo == CHOOSE q \in 1..(Len(s) + 1) :
              /\ \A i \in 1..(q - 1) : s[i] = "-"
              /\ q = Len(s) + 1 \/ s[q] # "-"
      hi == CHOOSE q \in (lo - 1)..Len(s) :
              /\ \A i \in (q + 1)..Len(s) : s[i] = "-"
              /\ q = lo - 1 \/ s[q] # "-"
  IN  SubSeq(s, lo, hi)

\* _slug
slug(s) == StripDashes(SubRuns(s))

\* the wall clock counts TicksPerSecond ticks to the second; the model's runs
\* fall into one minute, 2026-11-03 01:42
DATE_MINUTE == <<"2","0","2","6","-","1","1","-","0","3","_","0","1","4","2">>

\* datetime.now().strftime("%Y-%m-%d_%H%M%S") at clock reading now
StrfTime(now) ==
  LET sec == now \div TicksPerSecond
  IN  DATE_MINUTE \o <<Digits[((sec \div 10) % 6) + 1], Digits[(sec % 10) + 1]>>

\* output_folder, with the reading of datetime.now()
output_folder(company, role, now) ==
  <<OUTPUTS, slug(company) \o <<"_">> \o slug(role) \o <<"_">> \o StrfTime(now)>>

\* os.path.splitext(path)[1] != "": the last component has a "." after a
\* character that is no "."
HasExtension(path) ==
  /\ path # <<>>
  /\ LET name == path[Len(path)]
     IN  \E i \in DOMAIN name :
           name[i] = "." /\ \E j \in 1..(i - 1) : name[j] # "."

\* the directory ensure_dir creates for path: path, or its parent when path
\* looks like a file
EnsuredDir(path) ==
  IF HasExtension(path) THEN SubSeq(path, 1, Len(path) - 1) ELSE path

\* os.makedirs(dir_path or ".", exist_ok=True): the directories on disk after
\* ensure_dir(path)
ensure_dir(path, onDisk) ==
  onDisk \cup {SubSeq(EnsuredDir(path), 1, n) : n \in 1..Len(EnsuredDir(path))}

\* the company, role and model output the callers hand over
Jobs ==
  { [ company |-> <<"A",".","b">>, role |-> <<"Q","A">>,
      model_output |->
        <<"#","#"," ","T","a","i","l","o","r","e","d"," ","B","u","l","l","e",
          "t","s","\n","-"," ","A","\n","-"," ","B","\n","#","#"," ","C","o",
          "v","e","r"," ","L","e","t","t","e","r","\n","H","e","l","l","o"," ",
          "w","o","r","l","d","\n","#","#"," ","S","k","i","l","l","s"," ","G",
          "a","p","s","\n","-"," ","G","a","p","1","\n">> ],
    [ company |-> <<"Z","e","d">>, role |-> <<"Q","A">>,
      model_output |-> <<>> ],
    [ company |-> <<"Z","e","d">>, role |-> <<"Q","A">>,
      model_output |-> TextLongBullet ] }

NoPath == <<>>

NoMetadata == [role |-> <<>>, company |-> <<>>, created_at |-> <<>>]

IdleRun ==
  [ pc |-> "idle", company |-> <<>>, role |-> <<>>,
    bullets |-> <<>>, letter |-> <<>>, gaps |-> <<>>,
    out_dir |-> NoPath, metadata |-> NoMetadata, returned |-> NoPath,
    failed_at |-> "none",
    read |-> 0,       \* the clock reading of output_folder
    used |-> {},      \* the directories handed to ensure_dir and open
    wrote |-> {} ]    \* the paths of the files the run has written

\* the order of the steps of postprocess_and_write that touch the disk:
\* ensure_dir(out_dir), the four files, ensure_dir("outputs"), the pointer
Steps ==
  <<"mkdir", "bullets", "letter", "gaps", "meta", "mkptr", "pointer", "returned">>

IndexOf(st) == CHOOSE i \in DOMAIN Steps : Steps[i] = st

\* a mis-ordered postprocess_and_write that drops the pointer before the files
StepAfter_PointerFirst(st) ==
  CASE st = "mkdir"   -> "mkptr"
    [] st = "mkptr"   -> "pointer"
    [] st = "pointer" -> "bullets"
    [] st = "meta"    -> "returned"
    [] OTHER          -> Steps[IndexOf(st) + 1]

\* the step that follows step st
StepAfter(st) == Steps[IndexOf(st) + 1]

ArtifactSteps == {"bullets", "letter", "gaps", "meta"}

\* the file step st writes
FileOf(st) ==
  CASE st = "bullets" -> BULLETS_MD
    [] st = "letter"  -> COVER_LETTER_MD
    [] st = "gaps"    -> SKILLS_GAPS_MD
    [] st = "meta"    -> RUN_METADATA_JSON

\* a postprocess_and_write that calls output_folder again at each use
TargetDir_Recomputed(rec, now) == output_folder(rec.company, rec.role, now)

\* the directory a step of the run works in: out_dir, computed at line 146
TargetDir(rec, now) == rec.out_dir

\* what step st writes: lines 112, 115, 118 and 121
DataOf(rec, st) ==
  CASE st = "bullets" ->
         [kind |-> "text", body |-> HEAD_BULLETS \o Strip(rec.bullets) \o <<"\n">>]
    [] st = "letter" ->
         [kind |-> "text", body |-> HEAD_LETTER \o Strip(rec.letter) \o <<"\n">>]
    [] st = "gaps" ->
         [kind |-> "text", body |-> HEAD_GAPS \o Strip(rec.gaps) \o <<"\n">>]
    [] st = "meta" ->
         [kind |-> "json", body |-> rec.metadata]

\* an exception handler around the write that goes on with the next step
Raise_Swallowed(rec, st) ==
  [rec EXCEPT !.pc = StepAfter(st), !.failed_at = st]

\* an OSError raised in step st leaves postprocess_and_write: nothing catches it
Raise(rec, st) ==
  [rec EXCEPT !.pc = "raised", !.failed_at = st]

\* a write that leaves a file that is there already as it is (mode "x")
WriteFile_KeepEarlier(onDisk, path, data, r, done) ==
  [ p \in DOMAIN onDisk \cup {path} |->
      IF p \in DOMAIN onDisk
        THEN onDisk[p]
        ELSE [ writer |-> r, complete |-> done, kind |-> data.kind,
               body |-> IF done THEN data.body ELSE <<>> ] ]

\* the file system after open(path, "w") and the write of data by run r; done
\* is FALSE when the write failed after the open had truncated the file
WriteFile(onDisk, path, data, r, done) ==
  [ p \in DOMAIN onDisk \cup {path} |->
      IF p = path
        THEN [ writer |-> r, complete |-> done, kind |-> data.kind,
               body |-> IF done THEN data.body ELSE <<>> ]
        ELSE onDisk[p] ]

InitRuns ==
  /\ clock = 0
  /\ run = [r \in Runs |-> IdleRun]
  /\ dirs = {}
  /\ files = <<>>

\* the paths ensure_dir is called with on its own: directories with and
\* without parents, names with a "." in them, a hidden name, a file path
DirPaths ==
  { <<OUTPUTS>>,
    <<OUTPUTS, <<"A","-","b","_","Q","A">> >>,
    <<OUTPUTS, <<"v","1",".","2">> >>,
    << <<"a">>, <<"b">>, <<"c">> >>,
    << <<"n","o","t","e","s",".","m","d">> >>,
    << <<".","g","i","t">> >>,
    PointerPath }

\* the paths where someone else may have put a regular file
FilePaths ==
  { << <<"a">> >>,
    <<OUTPUTS, <<"A","-","b","_","Q","A">> >>,
    <<OUTPUTS, <<"v","1",".","2">> >> }

\* no ensure_dir call has been made yet: for each path, the calls made with it
NoCalls == [p \in DirPaths |-> <<>>]

\* the value of result before run_llm returns
NoResult == [text |-> <<>>, usage |-> "None", model |-> "None"]

\* run_llm before it is called
IdleLlm ==
  [ pc |-> "idle", retries |-> 0, key |-> FALSE,
    attempt |-> 0, backoff |-> 1, last_err |-> "None",
    outcomes |-> <<>>,    \* of the calls of chat.completions.create, in order
    sleeps |-> <<>>,      \* the arguments of time.sleep, in order
    result |-> NoResult, error |-> "None" ]

\* main of batch.py before it is called
IdleBatch ==
  [ pc |-> "idle", continue_on_error |-> FALSE, dry_run |-> FALSE,
    csv |-> "ok", rows |-> <<>>, jobs |-> <<>>,
    next |-> 1, failures |-> 0,
    started |-> <<>>,     \* the rows whose run_job call has begun, in order
    executed |-> <<>>,    \* the rows whose run.sh was started, in order
    rcs |-> <<>>,         \* what the run_job calls returned, in order
    exit_code |-> 0 ]     \* the argument of sys.exit, once pc is "exit"

InitSide ==
  /\ ensured = NoCalls
  /\ llm = IdleLlm
  /\ batch = IdleBatch

\* the pipeline before a text is handed to it
InitNoText ==
  /\ text = <<>>
  /\ step = "start"
  /\ direct = FALSE
  /\ sections = NoSections
  /\ regions = NoRegions
  /\ gated = NoSections
  /\ target = NoTarget

Init ==
  /\ InitRuns
  /\ InitNoText
  /\ InitSide

\* the wall clock advances
Tick ==
  /\ clock < MaxClock
  /\ clock' = clock + 1
  /\ UNCHANGED <<run, dirs, files, textVars, sideVars>>

\* lines 138-146: split, gates, out_dir = output_folder(company, role)
Call(r) ==
  /\ run[r].pc = "idle"
  /\ \E job \in Jobs :
       LET s == split_sections(job.model_output)
       IN  run' = [run EXCEPT ![r] =
             [ @ EXCEPT
                 !.pc = "metadata",
                 !.company = job.company,
                 !.role = job.role,
                 !.bullets = enforce_bullets_rules(s.bullets),
                 !.letter = enforce_letter_rules(s.letter, TARGET_MIN_DEFAULT,
                                                 TARGET_MAX_DEFAULT),
                 !.gaps = enforce_gaps_rules(s.gaps),
                 !.out_dir = output_folder(job.company, job.role, clock),
                 !.read = clock ]]
  /\ UNCHANGED <<clock, dirs, files, textVars, sideVars>>

\* lines 149-161: the metadata, with a second reading of the clock
BuildMetadata(r) ==
  /\ run[r].pc = "metadata"
  /\ run' = [run EXCEPT ![r] =
       [ @ EXCEPT
           !.pc = Steps[1],
           !.metadata = [ role |-> run[r].role, company |-> run[r].company,
                          created_at |-> StrfTime(clock) ] ]]
  /\ UNCHANGED <<clock, dirs, files, textVars, sideVars>>

\* line 109: ensure_dir(out_dir), which may fail
EnsureOutDir(r) ==
  /\ run[r].pc = "mkdir"
  /\ LET d   == TargetDir(run[r], clock)
         rec == [run[r] EXCEPT !.used = @ \cup {d}]
     IN  \/ /\ dirs' = ensure_dir(d, dirs)
            /\ run' = [run EXCEPT ![r] = [rec EXCEPT !.pc = StepAfter("mkdir")]]
         \/ /\ dirs' = dirs
            /\ run' = [run EXCEPT ![r] = Raise(rec, "mkdir")]
  /\ UNCHANGED <<clock, files, textVars, sideVars>>

\* lines 111-121: one of the four files; open fails when the directory is not
\* there and may fail otherwise, and the write may fail after the open
WriteArtifact(r) ==
  /\ run[r].pc \in ArtifactSteps
  /\ LET st   == run[r].pc
         d    == TargetDir(run[r], clock)
         path == Append(d, FileOf(st))
         rec  == [run[r] EXCEPT !.used = @ \cup {d}]
     IN  \/ /\ d \in dirs
            /\ files' = WriteFile(files, path, DataOf(rec, st), r, TRUE)
            /\ run' = [run EXCEPT ![r] =
                 [rec EXCEPT !.pc = StepAfter(st), !.wrote = @ \cup {path}]]
         \/ /\ d \in dirs
            /\ files' = WriteFile(files, path, DataOf(rec, st), r, FALSE)
            /\ run' = [run EXCEPT ![r] = Raise(rec, st)]
         \/ /\ files' = files
            /\ run' = [run EXCEPT ![r] = Raise(rec, st)]
  /\ UNCHANGED <<clock, dirs, textVars, sideVars>>

\* line 167: ensure_dir("outputs")
EnsurePointerDir(r) ==
  /\ run[r].pc = "mkptr"
  /\ \/ /\ dirs' = ensure_dir(<<OUTPUTS>>, dirs)
        /\ run' = [run EXCEPT ![r].pc = StepAfter("mkptr")]
     \/ /\ dirs' = dirs
        /\ run' = [run EXCEPT ![r] = Raise(run[r], "mkptr")]
  /\ UNCHANGED <<clock, files, textVars, sideVars>>

\* the record of lines 168-169
PointerData(rec, now) ==
  [kind |-> "json", body |-> [outputs_dir |-> TargetDir(rec, now)]]

\* lines 168-171: the pointer file, then return out_dir
WritePointer(r) ==
  /\ run[r].pc = "pointer"
  /\ LET data == PointerData(run[r], clock)
     IN  \/ /\ <<OUTPUTS>> \in dirs
            /\ files' = WriteFile(files, PointerPath, data, r, TRUE)
            /\ run' = [run EXCEPT ![r] =
                 [ @ EXCEPT !.pc = StepAfter("pointer"),
                            !.wrote = @ \cup {PointerPath},
                            !.returned = TargetDir(run[r], clock) ]]
         \/ /\ <<OUTPUTS>> \in dirs
            /\ files' = WriteFile(files, PointerPath, data, r, FALSE)
            /\ run' = [run EXCEPT ![r] = Raise(run[r], "pointer")]
         \/ /\ files' = files
            /\ run' = [run EXCEPT ![r] = Raise(run[r], "pointer")]
  /\ UNCHANGED <<clock, dirs, textVars, sideVars>>

\* tailor.py lines 193-205: main writes the pointer once more, with the role
\* and company, and only warns when that fails
MainPointer(r) ==
  /\ run[r].pc = "returned"
  /\ LET data == [ kind |-> "json",
                   body |-> [ outputs_dir |-> run[r].returned,
                              role |-> run[r].role,
                              company |-> run[r].company ] ]
     IN  \/ /\ <<OUTPUTS>> \in dirs
            /\ files' = WriteFile(files, PointerPath, data, r, TRUE)
         \/ /\ <<OUTPUTS>> \in dirs
            /\ files' = WriteFile(files, PointerPath, data, r, FALSE)
         \/ files' = files
  /\ run' = [run EXCEPT ![r].pc = "done"]
  /\ UNCHANGED <<clock, dirs, textVars, sideVars>>

Next ==
  \/ Tick
  \/ \E r \in Runs :
       \/ Call(r)
       \/ BuildMetadata(r)
       \/ EnsureOutDir(r)
       \/ WriteArtifact(r)
       \/ EnsurePointerDir(r)
       \/ WritePointer(r)
       \/ MainPointer(r)

Spec == Init /\ [][Next]_vars

----------------------------------------------------------------------------
(* SpecText: postprocess_and_write, steps 1 and 2, on every text; and the   *)
(* gates called on the text itself.                                        *)

InitText ==
  /\ text \in Texts
  /\ step = "start"
  /\ direct = FALSE
  /\ sections = NoSections
  /\ regions = NoRegions
  /\ gated = NoSections
  /\ target = NoTarget
  /\ InitRuns
  /\ InitSide

\* line 138: bullets_md, letter_md, gaps_md = split_sections(model_output)
SplitSections ==
  /\ step = "start"
  /\ sections' = split_sections(text)
  /\ regions' = [k \in Keys |-> grabSpan(k, OrEmpty(text))]
  /\ step' = "split"
  /\ UNCHANGED <<text, direct, gated, target, runVars, sideVars>>

\* the gates as public functions: each is given the text itself, a str
CallGates ==
  /\ step = "start"
  /\ text # None
  /\ direct' = TRUE
  /\ sections' = [bullets |-> text, letter |-> text, gaps |-> text]
  /\ step' = "split"
  /\ UNCHANGED <<text, regions, gated, target, runVars, sideVars>>

\* line 141
EnforceBullets ==
  /\ step = "split"
  /\ gated' = [gated EXCEPT !.bullets = enforce_bullets_rules(sections.bullets)]
  /\ step' = "bullets"
  /\ UNCHANGED <<text, direct, sections, regions, target, runVars, sideVars>>

\* the targets enforce_letter_rules is given: postprocess_and_write leaves them
\* at their defaults (line 142), a direct call chooses them
Targets ==
  IF direct
    THEN [min : {0, TARGET_MIN_DEFAULT}, max : 0..MaxTarget]
    ELSE {[min |-> TARGET_MIN_DEFAULT, max |-> TARGET_MAX_DEFAULT]}

\* line 142
EnforceLetter ==
  /\ step = "bullets"
  /\ \E tg \in Targets :
       /\ target' = tg
       /\ gated' = [gated EXCEPT
                      !.letter = enforce_letter_rules(sections.letter, tg.min, tg.max)]
  /\ step' = "letter"
  /\ UNCHANGED <<text, direct, sections, regions, runVars, sideVars>>

\* line 143
EnforceGaps ==
  /\ step = "letter"
  /\ gated' = [gated EXCEPT !.gaps = enforce_gaps_rules(sections.gaps)]
  /\ step' = "gated"
  /\ UNCHANGED <<text, direct, sections, regions, target, runVars, sideVars>>

NextText ==
  \/ SplitSections
  \/ CallGates
  \/ EnforceBullets
  \/ EnforceLetter
  \/ EnforceGaps

SpecText == InitText /\ [][NextText]_vars

----------------------------------------------------------------------------
(* Properties of the gates and of split_sections, under SpecText.          *)

\* the number of lines of a string
LineCount(s) == Len(SplitLines(s))

\* the number of lines of s whose first character that is no white space is
\* the list marker
NumItemLines(s) ==
  LET lines == SplitLines(s)
      IsItem(ln) == \E k \in DOMAIN ln :
                      /\ ln[k] = "-"
                      /\ \A j \in 1..(k - 1) : ln[j] \in WhiteSpace
  IN  Cardinality({i \in DOMAIN lines : IsItem(lines[i])})

\* C1: the output of enforce_bullets_rules has between 3 and 6 lines, for every
\* input, also one with 0 or 1 list-marker lines.
C1_BulletsBetween3And6 ==
  step = "bullets" =>
    /\ LineCount(gated.bullets) >= 3
    /\ LineCount(gated.bullets) <= 6

\* C2: the output of enforce_gaps_rules has between 2 and 5 lines, for every
\* input, also the empty string of a missing section.
C2_GapsBetween2And5 ==
  step = "gated" =>
    /\ LineCount(gated.gaps) >= 2
    /\ LineCount(gated.gaps) <= 5

Positions(r) == r[1]..(r[2] - 1)

\* C4: the contents split_sections returns come from pairwise disjoint regions
\* of the text, whatever the order, spacing or spelling of the headings.
C4_RegionsDisjoint ==
  (step = "split" /\ ~direct) =>
    \A k1, k2 \in Keys :
      k1 # k2 => Positions(regions[k1]) \cap Positions(regions[k2]) = {}

\* p starts a line that holds the heading of section key
IsHeadingLine(key, t, p) ==
  /\ p \in 1..Len(t)
  /\ AtLineStart(t, p)
  /\ SkipSpace(t, p, LineEnd(t, p)) < LineEnd(t, p)
  /\ MatchHeading(key, t, p) # 0

\* p starts a line that begins, after optional white space, with "##" and
\* white space
IsHashLine(t, p) ==
  /\ p \in 1..Len(t)
  /\ AtLineStart(t, p)
  /\ LET q == SkipSpace(t, p, LineEnd(t, p))
     IN  /\ q + 2 <= Len(t)
         /\ t[q] = "#" /\ t[q + 1] = "#" /\ t[q + 2] \in WhiteSpace

HasHeadingLine(key, t) == \E p \in 1..Len(t) : IsHeadingLine(key, t, p)

\* the content of section key as C5 states it: from after the heading line to
\* the start of the next line that holds one of the three headings
ContentToNextSection(key, t) ==
  LET hl    == Least({p \in 1..Len(t) : IsHeadingLine(key, t, p)})
      after == Min(LineEnd(t, hl) + 1, Len(t) + 1)
      stop  == Least({q \in after..(Len(t) + 1) :
                        q = Len(t) + 1 \/ \E k \in Keys : IsHeadingLine(k, t, q)})
  IN  Strip(SubSeq(t, after, stop - 1))

\* C5 as stated: the content runs from after the heading line to the start of
\* the next recognized section heading line or the end of the text, stripped; a
\* line that is no recognized heading does not end it, and no text of the
\* heading line is part of it.
C5_ContentToNextSection ==
  (step = "split" /\ ~direct) =>
    \A key \in Keys :
      HasHeadingLine(key, text) => sections[key] = ContentToNextSection(key, text)

\* the content of section key as the amended C5 states it: from after the
\* heading words to the start of the next line beginning with "##" and white
\* space, among the lines that start at or after the first character after the
\* heading words that is no white space
ContentToNextHashLine(key, t) ==
  LET hl    == Least({p \in 1..Len(t) : IsHeadingLine(key, t, p)})
      words == MatchHeading(key, t, hl)
      from  == SkipSpace(t, words, Len(t) + 1)
      stop  == Least({q \in from..(Len(t) + 1) :
                        q = Len(t) + 1 \/ IsHashLine(t, q)})
  IN  Strip(SubSeq(t, from, stop - 1))

\* C5 amended: the content runs from just after the heading words to the start
\* of the next line that begins with "##" followed by white space (a recognized
\* heading or not) or the end of the text, stripped.
C5_ContentToNextHashLine ==
  (step = "split" /\ ~direct) =>
    \A key \in Keys :
      /\ HasHeadingLine(key, text) =>
           sections[key] = ContentToNextHashLine(key, text)
      /\ ~HasHeadingLine(key, text) => sections[key] = <<>>

\* C5 witness: a "## Notes" line has ended the bullets section, and the text
\* after the heading words on the heading line is part of the content
C5_Witness ==
  /\ step = "split" /\ ~direct
  /\ text = SegBulletsTail \o SegItem \o SegNotes
  /\ sections.bullets = <<":", " ", "v", "2", "\n", "-", " ", "a">>

\* s is t without its leading and trailing white space
IsTrimOf(s, t) ==
  \E a \in 0..Len(t) :
    /\ a + Len(s) <= Len(t)
    /\ s = SubSeq(t, a + 1, a + Len(s))
    /\ \A i \in (1..a) \cup ((a + Len(s) + 1)..Len(t)) : t[i] \in WhiteSpace
    /\ s # <<>> => s[1] \notin WhiteSpace /\ s[Len(s)] \notin WhiteSpace

\* C10: with more than target_max tokens the output is the first target_max
\* tokens joined by single spaces and followed by the ellipsis marker; with
\* target_max tokens or fewer it is the input trimmed; target_min plays no part.
C10_LetterCut ==
  step = "letter" =>
    LET words == FindAllWords(sections.letter)
    IN  IF Len(words) > target.max
          THEN gated.letter =
                 Join(<<" ">>, Append(Take(words, target.max), <<Ellipsis>>))
          ELSE IsTrimOf(gated.letter, sections.letter)

\* C10 witness: a letter of more than target_max >= 1 tokens was cut
C10_Witness ==
  /\ step = "letter"
  /\ target.max >= 1
  /\ target.min = TARGET_MIN_DEFAULT
  /\ Len(FindAllWords(sections.letter)) > target.max
  /\ gated.letter[Len(gated.letter)] = Ellipsis

\* C11: the gated cover letter has at most target_max white-space-separated
\* tokens, for every input and every target_max.
C11_LetterAtMostMax ==
  step = "letter" => Len(FindAllWords(gated.letter)) <= target.max

\* s has no leading and no trailing white space
IsTrimmed(s) == s = <<>> \/ (s[1] \notin WhiteSpace /\ s[Len(s)] \notin WhiteSpace)

\* C12: what enforce_bullets_rules, enforce_letter_rules and enforce_gaps_rules
\* return has no leading and no trailing white space, for every input, also a
\* list line whose cut at 240 characters ends in a space.
C12_GatesTrimmed ==
  step = "gated" => \A k \in Keys : IsTrimmed(gated[k])

\* C13: for a text, or None, that lacks the heading of one or more sections,
\* split_sections returns the empty string for each of them and the content of
\* every section whose heading is there; the call always returns.
C13_MissingHeadings ==
  (step = "split" /\ ~direct) =>
    LET t      == OrEmpty(text)
        absent == {k \in Keys : ~HasHeadingLine(k, t)}
    IN  absent # {} =>
          /\ \A k \in absent : sections[k] = <<>>
          /\ \A k \in Keys \ absent : sections[k] = ContentToNextHashLine(k, t)

\* C13 witness: only the bullets heading is there; its content is returned, the
\* letter and the gaps are empty
C13_Witness ==
  /\ step = "split" /\ ~direct
  /\ text = SegBullets \o SegItem
  /\ sections = [bullets |-> <<"-", " ", "a">>, letter |-> <<>>, gaps |-> <<>>]

\* the canonical heading line of a section, with its line boundary
CanonicalLine(key) ==
  CASE key = "bullets" -> HEAD_BULLETS
    [] key = "letter"  -> HEAD_LETTER
    [] key = "gaps"    -> HEAD_GAPS

\* the positions where a line of t is the canonical heading line of key
CanonicalAt(key, t) ==
  {p \in 1..Len(t) :
     /\ AtLineStart(t, p)
     /\ p + Len(CanonicalLine(key)) - 1 <= Len(t)
     /\ SubSeq(t, p, p + Len(CanonicalLine(key)) - 1) = CanonicalLine(key)}

\* the greatest element of a non-empty set of numbers
Greatest(S) == CHOOSE x \in S : \A y \in S : x >= y

\* the positions of the first canonical heading line of each section and of
\* the three contents
Covered(t, regs) ==
  UNION {(Least(CanonicalAt(k, t))..(Least(CanonicalAt(k, t)) + Len(CanonicalLine(k)) - 1))
           \cup Positions(regs[k]) : k \in Keys}

\* C14: for a text that holds the three canonical headings, in any order,
\* split_sections returns three substrings from pairwise disjoint regions, each
\* the same in all six orders of the sections, and the heading lines and the
\* contents cover a contiguous span of the text (white space aside).
C14_ThreeDisjointSubstrings ==
  (step = "split" /\ ~direct /\ \A k \in Keys : CanonicalAt(k, text) # {}) =>
    /\ \A k \in Keys : sections[k] = SubSeq(text, regions[k][1], regions[k][2] - 1)
    /\ \A k1, k2 \in Keys :
         k1 # k2 => Positions(regions[k1]) \cap Positions(regions[k2]) = {}
    /\ \A p, q \in Orders :
         text = Arrange(p, <<>>, 0) => sections = split_sections(Arrange(q, <<>>, 0))
    /\ LET C == Covered(text, regions)
       IN  \A i \in Least(C)..Greatest(C) : i \in C \/ text[i] \in WhiteSpace

\* the first character of ln that is no white space is the list marker
IsItemLine(ln) ==
  \E k \in DOMAIN ln : ln[k] = "-" /\ \A j \in 1..(k - 1) : ln[j] \in WhiteSpace

\* C15: the output of enforce_bullets_rules is the first 6 (or fewer) of the
\* lines that begin with "-" after trimming, in their order, each cut to the
\* first 240 characters of the trimmed line; 10 list lines give exactly 6, and
\* no line of the output is longer than 240 characters.
C15_FirstSixListLines ==
  step = "bullets" =>
    LET lines  == SplitLines(sections.bullets)
        items  == {i \in DOMAIN lines : IsItemLine(lines[i])}
        kept   == Min(Cardinality(items), 6)
        out    == SplitLines(gated.bullets)
        Nth(n) == CHOOSE i \in items : Cardinality({j \in items : j <= i}) = n
    IN  /\ Len(out) \in {kept, kept + 1}
        /\ \A n \in 1..kept : out[n] = Take(Strip(lines[Nth(n)]), 240)
        /\ Len(out) = kept + 1 => kept < 3 /\ out[Len(out)] = BULLETS_NOTE
        /\ \A n \in DOMAIN out : Len(out[n]) <= 240
        /\ Cardinality(items) = 10 => Len(out) = 6

\* C15 witness: ten list lines have become six, and the fifth, longer than 240
\* characters, was cut to 240
C15_Witness ==
  /\ step = "bullets"
  /\ sections.bullets = TextTenItems
  /\ NumItemLines(sections.bullets) = 10
  /\ LineCount(gated.bullets) = 6
  /\ Len(SplitLines(gated.bullets)[5]) = 240
  /\ Len(Strip(SplitLines(sections.bullets)[6])) = 241

----------------------------------------------------------------------------
(* Properties of the artifact writer, under Spec.                          *)

\* the path of the file step st of run r writes
ArtifactPath(r, st) == Append(run[r].out_dir, FileOf(st))

\* the steps of write_artifacts before step st
StepsBefore(st) == {s \in ArtifactSteps : IndexOf(s) < IndexOf(st)}

\* C6: when the write of the pointer file fails after the four artifact files
\* were written, postprocess_and_write raises nothing and returns out_dir.
C6_PointerFailureNotFatal ==
  \A r \in Runs :
    run[r].failed_at = "pointer" =>
      /\ run[r].pc # "raised"
      /\ run[r].returned = run[r].out_dir

\* C7: the pointer is written only after the four files of the run that writes
\* it, it names the out_dir of the run that wrote it last, which is what that
\* run returns, and that directory holds the four artifact files.
C7_PointerLastWriter ==
  PointerPath \in DOMAIN files =>
    LET p == files[PointerPath]
        w == p.writer
    IN  /\ \A st \in ArtifactSteps : ArtifactPath(w, st) \in run[w].wrote
        /\ p.complete =>
             /\ p.body.outputs_dir = run[w].out_dir
             /\ run[w].pc \in {"returned", "done"} =>
                  run[w].returned = p.body.outputs_dir
             /\ \A st \in ArtifactSteps :
                  Append(p.body.outputs_dir, FileOf(st)) \in DOMAIN files

\* C7 witness: both runs are over, run 2 wrote the pointer last and the pointer
\* names its directory, not that of run 1
C7_Witness ==
  /\ run[1].pc = "done" /\ run[2].pc = "done"
  /\ PointerPath \in DOMAIN files
  /\ files[PointerPath].writer = 2
  /\ files[PointerPath].complete
  /\ files[PointerPath].body.outputs_dir = run[2].returned
  /\ run[1].returned # run[2].returned

\* the difference of two clock readings
Apart(a, b) == IF a < b THEN b - a ELSE a - b

\* C8: two runs for the same company and role whose clock readings are a
\* second or more apart get different output locations; and a run's location is
\* computed once: every directory it hands to ensure_dir and open, the pointer
\* it writes and the value it returns are its out_dir.
C8_FreshLocation ==
  /\ \A r1, r2 \in Runs :
       ( /\ r1 # r2
         /\ run[r1].pc # "idle" /\ run[r2].pc # "idle"
         /\ run[r1].company = run[r2].company
         /\ run[r1].role = run[r2].role
         /\ Apart(run[r1].read, run[r2].read) >= TicksPerSecond )
       => run[r1].out_dir # run[r2].out_dir
  /\ \A r \in Runs :
       /\ run[r].used \subseteq {run[r].out_dir}
       /\ \A p \in run[r].wrote :
            p = PointerPath \/ SubSeq(p, 1, Len(p) - 1) = run[r].out_dir
       /\ run[r].pc \in {"returned", "done"} =>
            /\ run[r].returned = run[r].out_dir
            /\ \A st \in ArtifactSteps : ArtifactPath(r, st) \in run[r].wrote
       /\ ( /\ PointerPath \in DOMAIN files
            /\ files[PointerPath].writer = r
            /\ files[PointerPath].complete )
          => files[PointerPath].body.outputs_dir = run[r].out_dir

\* C8 witness: two runs for the same company and role, read a second or more
\* apart, have returned different locations
C8_Witness ==
  /\ run[1].pc = "done" /\ run[2].pc = "done"
  /\ run[1].company = run[2].company /\ run[1].role = run[2].role
  /\ Apart(run[1].read, run[2].read) >= TicksPerSecond
  /\ run[1].returned # run[2].returned

\* C9: when the write of one of the four artifact files fails, the error leaves
\* postprocess_and_write, the files the run wrote before stay on disk, the run
\* writes no later file, and it does not touch the pointer file.
C9_ArtifactFailure ==
  \A r \in Runs :
    run[r].failed_at \in ArtifactSteps =>
      /\ run[r].pc = "raised"
      /\ run[r].returned = NoPath
      /\ \A st \in StepsBefore(run[r].failed_at) :
           /\ ArtifactPath(r, st) \in run[r].wrote
           /\ ArtifactPath(r, st) \in DOMAIN files
           /\ files[ArtifactPath(r, st)].writer = r =>
                /\ files[ArtifactPath(r, st)].complete
                /\ files[ArtifactPath(r, st)].body = DataOf(run[r], st).body
      /\ \A st \in ArtifactSteps \ StepsBefore(run[r].failed_at) :
           ArtifactPath(r, st) \notin run[r].wrote
      /\ PointerPath \notin run[r].wrote
      /\ PointerPath \in DOMAIN files => files[PointerPath].writer # r

\* C9 witness: the write of skills_gaps.md failed; bullets.md and
\* cover_letter.md of the run are on disk and there is no pointer file
C9_Witness ==
  /\ run[1].failed_at = "gaps"
  /\ run[1].pc = "raised"
  /\ ArtifactPath(1, "bullets") \in DOMAIN files
  /\ ArtifactPath(1, "letter") \in DOMAIN files
  /\ files[ArtifactPath(1, "letter")].complete
  /\ ArtifactPath(1, "meta") \notin DOMAIN files
  /\ PointerPath \notin DOMAIN files

\* C16: reading back bullets.md, cover_letter.md and skills_gaps.md after
\* write_artifacts yields the canonical heading line, then the gated text as
\* the gate returned it, then one line boundary, for every value of the gates.
C16_RoundTrip ==
  \A r \in Runs :
    \A k \in Keys :
      ( /\ ArtifactPath(r, k) \in run[r].wrote
        /\ ArtifactPath(r, k) \in DOMAIN files
        /\ files[ArtifactPath(r, k)].writer = r
        /\ files[ArtifactPath(r, k)].complete )
      => files[ArtifactPath(r, k)].body = CanonicalLine(k) \o run[r][k] \o <<"\n">>

\* the second of the wall clock a reading falls into
SecondOf(now) == now \div TicksPerSecond

\* runs r1 and r2 were called for the same company and role
SamePair(r1, r2) ==
  /\ r1 # r2
  /\ run[r1].pc # "idle" /\ run[r2].pc # "idle"
  /\ run[r1].company = run[r2].company
  /\ run[r1].role = run[r2].role

\* run r writes the file of step st in this step, and the write succeeds
Writes(r, st) ==
  /\ run[r].pc = st
  /\ run'[r].pc = StepAfter(st)

\* the file at path holds what run r writes in step st, whatever it held
Replaced(r, st, path) ==
  /\ path \in DOMAIN files'
  /\ files'[path].writer = r
  /\ files'[path].complete
  /\ files'[path].body = DataOf(run[r], st).body
  /\ \A q \in DOMAIN files \ {path} : files'[q] = files[q]

\* the runs that read the same second share a location, the others share no
\* file but the pointer
SameSecondSameLocation ==
  \A r1, r2 \in Runs :
    /\ ( SamePair(r1, r2)
         /\ SecondOf(run[r1].read) = SecondOf(run[r2].read) )
       => run[r1].out_dir = run[r2].out_dir
    /\ ( r1 # r2 /\ run[r1].pc # "idle" /\ run[r2].pc # "idle"
         /\ SecondOf(run[r1].read) # SecondOf(run[r2].read) )
       => /\ run[r1].out_dir # run[r2].out_dir
          /\ run[r1].wrote \cap run[r2].wrote \subseteq {PointerPath}
          /\ \A st \in ArtifactSteps :
               ArtifactPath(r1, st) \in DOMAIN files =>
                 files[ArtifactPath(r1, st)].writer = r1

\* C22: two runs for the same company and role whose output_folder calls read
\* the same wall-clock second obtain the same output location; the later write
\* to each file name replaces the earlier one (so the directory may end up with
\* section files of one run and run_metadata.json of the other); runs that read
\* different seconds never touch each other's files.
C22_SameSecondRace ==
  /\ []SameSecondSameLocation
  /\ [][ \A r \in Runs : \A st \in ArtifactSteps :
           Writes(r, st) => Replaced(r, st, ArtifactPath(r, st)) ]_vars

\* C22 witness: two runs for Zed/QA read the same second and share out_dir; both
\* have written their four files; the three section files on disk are those of
\* run 1 and run_metadata.json is that of run 2, and the two runs' bullets and
\* metadata differ
C22_Witness ==
  /\ SamePair(1, 2)
  /\ SecondOf(run[1].read) = SecondOf(run[2].read)
  /\ run[1].out_dir = run[2].out_dir
  /\ run[1].pc = "done" /\ run[2].pc = "done"
  /\ run[1].bullets # run[2].bullets
  /\ run[1].metadata # run[2].metadata
  /\ \A k \in Keys :
       /\ files[ArtifactPath(1, k)].writer = 1
       /\ files[ArtifactPath(1, k)].body = DataOf(run[1], k).body
  /\ files[ArtifactPath(1, "meta")].writer = 2
  /\ files[ArtifactPath(1, "meta")].body = run[2].metadata

----------------------------------------------------------------------------
(* SpecDir: ensure_dir of src/src/utils/io.py called on its own, on a disk   *)
(* where regular files may appear.                                         *)

\* the path without its last component
Parent(path) == SubSeq(path, 1, Len(path) - 1)

\* the path and the paths above it
Prefixes(path) == {SubSeq(path, 1, n) : n \in 1..Len(path)}

\* os.makedirs without exist_ok: an existing directory raises as well
MakedirsRaises_NoExistOk(d, onDisk, onFiles) ==
  \/ \E q \in Prefixes(d) : q \in DOMAIN onFiles
  \/ d \in onDisk

\* os.makedirs(d, exist_ok=True) raises when d or a path above it is a regular
\* file; that d is a directory already (onDisk) is no error
MakedirsRaises(d, onDisk, onFiles) ==
  \E q \in Prefixes(d) : q \in DOMAIN onFiles

\* what is known of one call of ensure_dir(path)
CallRecord(path, onDisk, onFiles) ==
  [ ok      |-> ~MakedirsRaises(EnsuredDir(path), onDisk, onFiles),
    parents |-> Prefixes(Parent(path)) \subseteq onDisk,
    blocked |-> \E q \in Prefixes(path) : q \in DOMAIN onFiles ]

\* lines 36-48: one call of ensure_dir(path)
EnsureDir(path) ==
  /\ Len(ensured[path]) < MaxCalls
  /\ ensured' = [ensured EXCEPT
                   ![path] = Append(@, CallRecord(path, dirs, files))]
  /\ dirs' = IF MakedirsRaises(EnsuredDir(path), dirs, files)
               THEN dirs
               ELSE ensure_dir(path, dirs)
  /\ UNCHANGED <<clock, run, files, llm, batch, textVars>>

\* someone else creates a regular file in a directory that exists
Touch(path) ==
  /\ path \notin dirs
  /\ path \notin DOMAIN files
  /\ Parent(path) = <<>> \/ Parent(path) \in dirs
  /\ files' = WriteFile(files, path, [kind |-> "text", body |-> <<>>], 0, TRUE)
  /\ UNCHANGED <<clock, run, dirs, ensured, llm, batch, textVars>>

NextDir ==
  \/ \E path \in DirPaths : EnsureDir(path)
  \/ \E path \in FilePaths : Touch(path)

SpecDir == Init /\ [][NextDir]_vars

\* C17: ensure_dir is an idempotent create, for any path: a call made while
\* parent directories are missing succeeds, a second call on the same path
\* does not raise, and after each call a directory exists at that path.
C17_IdempotentCreate ==
  \A path \in DirPaths :
    LET calls == ensured[path]
    IN  /\ \A i \in DOMAIN calls :
             (~calls[i].parents /\ ~calls[i].blocked) => calls[i].ok
        /\ \A i \in DOMAIN calls : (i > 1 /\ calls[i - 1].ok) => calls[i].ok
        /\ (\E i \in DOMAIN calls : calls[i].ok) => path \in dirs

\* C17 amended: as C17, but the directory that exists after a call is the path
\* itself only when its last component has no extension; a path whose last
\* component has one is taken for a file, and the directory that exists is its
\* parent (the current directory for a bare file name), the path itself being
\* left as it was.
C17_IdempotentCreateOrParent ==
  \A path \in DirPaths :
    LET calls == ensured[path]
    IN  /\ \A i \in DOMAIN calls :
             (~calls[i].parents /\ ~calls[i].blocked) => calls[i].ok
        /\ \A i \in DOMAIN calls : (i > 1 /\ calls[i - 1].ok) => calls[i].ok
        /\ (\E i \in DOMAIN calls : calls[i].ok) =>
             IF HasExtension(path)
               THEN /\ Parent(path) = <<>> \/ Parent(path) \in dirs
                    /\ path \notin dirs
               ELSE Prefixes(path) \subseteq dirs

\* C17 witness: two calls on a/b/c, the first with no parent there, have both
\* returned and the three directories exist; a call on outputs/v1.2 has made
\* outputs and no directory outputs/v1.2
C17_Witness ==
  /\ ensured[<< <<"a">>, <<"b">>, <<"c">> >>] =
       << [ok |-> TRUE, parents |-> FALSE, blocked |-> FALSE],
          [ok |-> TRUE, parents |-> TRUE, blocked |-> FALSE] >>
  /\ Prefixes(<< <<"a">>, <<"b">>, <<"c">> >>) \subseteq dirs
  /\ Len(ensured[<<OUTPUTS, <<"v","1",".","2">> >>]) = 2
  /\ ensured[<<OUTPUTS, <<"v","1",".","2">> >>][1].ok
  /\ <<OUTPUTS>> \in dirs
  /\ <<OUTPUTS, <<"v","1",".","2">> >> \notin dirs

----------------------------------------------------------------------------
(* SpecLlm: run_llm of src/src/utils/llm.py, with get_client.               *)

DEFAULT_MODEL == "gpt-4o-mini"

DEFAULT_RETRIES == 2

\* the values of the parameter retries
Retries == (-1)..MaxRetries

\* what chat.completions.create may return: no choice, a message without
\* content or with content; with or without usage; with or without a model name
Responses ==
  [ choices : {"none", "null", "text"},
    usage   : {"None", "usage"},
    model   : {"None", "gpt-4o-mini-2024-07-18"} ]

\* what chat.completions.create may raise
Exceptions == {"APITimeoutError", "RateLimitError"}

NoResponse == [choices |-> "none", usage |-> "None", model |-> "None"]

\* the outcome of one call of chat.completions.create
Returned(resp) == [ok |-> TRUE, resp |-> resp, err |-> "None"]

Raised(e) == [ok |-> FALSE, resp |-> NoResponse, err |-> e]

\* lines 114-119: the dict run_llm returns for a response
ResultOf(resp) ==
  [ text  |-> IF resp.choices = "text" THEN <<"H", "i">> ELSE <<>>,
    usage |-> resp.usage,
    model |-> IF resp.model = "None" THEN DEFAULT_MODEL ELSE resp.model ]

\* a backoff that stays what it is
NextBackoff_Constant(b) == b

\* line 127: backoff *= 2.0
NextBackoff(b) == b * 2

\* the caller's arguments and environment
InitLlm ==
  /\ InitRuns
  /\ InitNoText
  /\ ensured = NoCalls
  /\ batch = IdleBatch
  /\ llm \in {[IdleLlm EXCEPT !.pc = "client", !.retries = r, !.key = k] :
                r \in Retries, k \in BOOLEAN}

\* line 96 and lines 44-53: get_client raises when OPENAI_API_KEY is not set
GetClient ==
  /\ llm.pc = "client"
  /\ \/ /\ llm.key
        /\ llm' = [llm EXCEPT !.pc = "while"]
     \/ /\ ~llm.key
        /\ llm' = [llm EXCEPT !.pc = "raised", !.error = "RuntimeError"]
  /\ UNCHANGED <<ensured, batch, runVars, textVars>>

\* lines 102-119: the call succeeds and run_llm returns
CreateReturns ==
  /\ llm.pc = "while"
  /\ llm.attempt <= llm.retries
  /\ \E resp \in Responses :
       llm' = [llm EXCEPT !.pc = "returned",
                          !.outcomes = Append(@, Returned(resp)),
                          !.result = ResultOf(resp)]
  /\ UNCHANGED <<ensured, batch, runVars, textVars>>

\* lines 102-125: the call raises; break after the last attempt
CreateRaises ==
  /\ llm.pc = "while"
  /\ llm.attempt <= llm.retries
  /\ \E e \in Exceptions :
       llm' = [llm EXCEPT
                 !.outcomes = Append(@, Raised(e)),
                 !.last_err = e,
                 !.attempt = @ + 1,
                 !.pc = IF llm.attempt + 1 > llm.retries THEN "failed" ELSE "sleep"]
  /\ UNCHANGED <<ensured, batch, runVars, textVars>>

\* lines 126-127: time.sleep(backoff); backoff *= 2.0
Sleep ==
  /\ llm.pc = "sleep"
  /\ llm' = [llm EXCEPT !.sleeps = Append(@, llm.backoff),
                        !.backoff = NextBackoff(@),
                        !.pc = "while"]
  /\ UNCHANGED <<ensured, batch, runVars, textVars>>

\* line 102: the loop ends because attempt <= retries does not hold
WhileEnds ==
  /\ llm.pc = "while"
  /\ ~(llm.attempt <= llm.retries)
  /\ llm' = [llm EXCEPT !.pc = "failed"]
  /\ UNCHANGED <<ensured, batch, runVars, textVars>>

\* line 130: raise RuntimeError
RaiseFailed ==
  /\ llm.pc = "failed"
  /\ llm' = [llm EXCEPT !.pc = "raised", !.error = "RuntimeError"]
  /\ UNCHANGED <<ensured, batch, runVars, textVars>>

NextLlm ==
  \/ GetClient
  \/ CreateReturns
  \/ CreateRaises
  \/ Sleep
  \/ WhileEnds
  \/ RaiseFailed

SpecLlm == InitLlm /\ [][NextLlm]_vars

RECURSIVE Pow2(_)
Pow2(n) == IF n = 0 THEN 1 ELSE 2 * Pow2(n - 1)

\* the calls of chat.completions.create that raised
FailedCalls == {i \in DOMAIN llm.outcomes : ~llm.outcomes[i].ok}

\* run_llm is over
LlmOver == llm.pc \in {"returned", "raised"}

\* the calls and the waits of run_llm: at most 1 + retries calls, nothing after
\* the first call that succeeds, whose result is returned; waits of 1, 2, 4,
\* ... between consecutive calls and none after the last one
CallsAndWaits ==
  /\ Len(llm.outcomes) <= 1 + llm.retries \/ llm.outcomes = <<>>
  /\ \A i \in DOMAIN llm.outcomes :
       llm.outcomes[i].ok =>
         /\ i = Len(llm.outcomes)
         /\ llm.pc = "returned"
         /\ llm.result = ResultOf(llm.outcomes[i].resp)
  /\ llm.pc = "returned" =>
       llm.outcomes # <<>> /\ llm.outcomes[Len(llm.outcomes)].ok
  /\ \A i \in DOMAIN llm.sleeps : llm.sleeps[i] = Pow2(i - 1)
  /\ llm.pc = "while" => Len(llm.sleeps) = Len(llm.outcomes)
  /\ (LlmOver /\ llm.outcomes # <<>>) => Len(llm.sleeps) = Len(llm.outcomes) - 1

\* C18: run_llm calls the API at most 1 + retries times, returns the result of
\* the first call that succeeds without a further call, waits 1s, 2s, 4s, ...
\* between consecutive attempts and not after the last one, and raises
\* RuntimeError exactly when all 1 + retries attempts have failed.
C18_RetryThenRuntimeError ==
  /\ CallsAndWaits
  /\ LlmOver =>
       ( llm.error = "RuntimeError" <=>
           (Cardinality(FailedCalls) = 1 + llm.retries) )

\* C18 amended: as C18, but RuntimeError is raised in two cases: when all
\* 1 + retries attempts have failed, and, before any attempt is made, when
\* OPENAI_API_KEY is not set.
C18_RetryOrNoKey ==
  /\ CallsAndWaits
  /\ LlmOver =>
       /\ llm.error = "RuntimeError" <=>
             (~llm.key \/ Cardinality(FailedCalls) = 1 + llm.retries)
       /\ ~llm.key => llm.outcomes = <<>> /\ llm.sleeps = <<>>
       /\ llm.error = "None" <=> llm.pc = "returned"

\* C18 witness: with two retries, three calls have failed; run_llm has waited
\* 1s and 2s and has raised without a third wait
C18_Witness ==
  /\ llm.pc = "raised"
  /\ llm.key
  /\ llm.retries = DEFAULT_RETRIES
  /\ Cardinality(FailedCalls) = 3
  /\ llm.sleeps = <<1, 2>>
  /\ llm.error = "RuntimeError"

----------------------------------------------------------------------------
(* SpecBatch: main of src/src/batch.py with load_jobs, validate_paths and   *)
(* run_job.  A job is the number of its row in the CSV.                     *)

\* a row of the CSV: whether its four fields are there, and whether its
\* posting and resume files exist
RowKinds ==
  {[valid |-> FALSE, posting |-> FALSE, resume |-> FALSE]}
    \cup [valid : {TRUE}, posting : BOOLEAN, resume : BOOLEAN]

\* the rows of a CSV
RowSeqs == UNION {[1..n -> RowKinds] : n \in 0..MaxRows}

\* what "bash ./run.sh" may exit with: 0, an exit status, or minus the number
\* of the signal that ended it
ReturnCodes == {0, 1, 2, -9}

\* the exit status the shell sees for sys.exit(code)
ExitStatus(code) == code % 256

RECURSIVE Ascending(_)
\* the numbers of S in ascending order
Ascending(S) ==
  IF S = {} THEN <<>> ELSE <<Least(S)>> \o Ascending(S \ {Least(S)})

\* lines 77-94: the rows with all four fields, in the order of the CSV
LoadedJobs(rows) == Ascending({i \in DOMAIN rows : rows[i].valid})

\* a loop that leaves at the first failure whatever the flag
StopsAtFailure_Always(continue_on_error, rc) == rc # 0

\* lines 149-152: the loop is left by sys.exit(rc)
StopsAtFailure(continue_on_error, rc) == rc # 0 /\ ~continue_on_error

\* sys.exit(code)
Exit(b, code) == [b EXCEPT !.pc = "exit", !.exit_code = code]

\* the command line and the files main finds
InitBatch ==
  /\ InitRuns
  /\ InitNoText
  /\ ensured = NoCalls
  /\ llm = IdleLlm
  /\ batch \in
       {[IdleBatch EXCEPT !.pc = "load", !.continue_on_error = coe,
                          !.dry_run = dry, !.csv = "ok", !.rows = rows] :
          coe \in BOOLEAN, dry \in BOOLEAN, rows \in RowSeqs}
       \cup
       {[IdleBatch EXCEPT !.pc = "load", !.continue_on_error = coe,
                          !.dry_run = dry, !.csv = csv] :
          coe \in BOOLEAN, dry \in BOOLEAN, csv \in {"missing", "no_header"}}

\* lines 65-75: sys.exit(message) when the CSV or its header is missing
LoadFails ==
  /\ batch.pc = "load"
  /\ batch.csv # "ok"
  /\ batch' = Exit(batch, 1)
  /\ UNCHANGED <<ensured, llm, runVars, textVars>>

\* lines 77-98 and 139-141: the jobs are loaded; sys.exit(0) when there is none
LoadJobs ==
  /\ batch.pc = "load"
  /\ batch.csv = "ok"
  /\ batch' = IF LoadedJobs(batch.rows) = <<>>
                THEN Exit(batch, 0)
                ELSE [batch EXCEPT !.pc = "validate",
                                   !.jobs = LoadedJobs(batch.rows)]
  /\ UNCHANGED <<ensured, llm, runVars, textVars>>

\* a validate_paths that looks at the posting files only
PathsOk_PostingOnly(rows, jobs) ==
  \A i \in DOMAIN jobs : rows[jobs[i]].posting

\* lines 108-115: ok after the loop of validate_paths, which goes through all
\* the jobs; posting and resume of a row are os.path.exists of its two paths
PathsOk(rows, jobs) ==
  \A i \in DOMAIN jobs : rows[jobs[i]].posting /\ rows[jobs[i]].resume

\* lines 106-117 and 144: validate_paths
ValidatePaths ==
  /\ batch.pc = "validate"
  /\ batch' =
       IF PathsOk(batch.rows, batch.jobs)
         THEN [batch EXCEPT !.pc = "for"]
         ELSE Exit(batch, 1)
  /\ UNCHANGED <<ensured, llm, runVars, textVars>>

\* lines 147-148 and 121-129: run_job is called for the next job and starts
\* run.sh
StartJob ==
  /\ batch.pc = "for"
  /\ batch.next <= Len(batch.jobs)
  /\ ~batch.dry_run
  /\ batch' = [batch EXCEPT !.pc = "run_job",
                            !.started = Append(@, batch.jobs[batch.next]),
                            !.executed = Append(@, batch.jobs[batch.next])]
  /\ UNCHANGED <<ensured, llm, runVars, textVars>>

\* lines 149-152: the loop body after run_job has returned rc
AfterJob(b, rc) ==
  LET counted == [b EXCEPT !.rcs = Append(@, rc),
                           !.failures = IF rc # 0 THEN @ + 1 ELSE @]
  IN  IF StopsAtFailure(b.continue_on_error, rc)
        THEN Exit(counted, rc)
        ELSE [counted EXCEPT !.pc = "for", !.next = @ + 1]

\* lines 124-126 and 147-152: run_job in a dry run returns 0 at once
DryRunJob ==
  /\ batch.pc = "for"
  /\ batch.next <= Len(batch.jobs)
  /\ batch.dry_run
  /\ batch' = AfterJob([batch EXCEPT !.started = Append(@, batch.jobs[batch.next])], 0)
  /\ UNCHANGED <<ensured, llm, runVars, textVars>>

\* lines 129-134 and 149-152: run.sh ends; run_job returns 0 or the return code
\* of the CalledProcessError
JobEnds ==
  /\ batch.pc = "run_job"
  /\ \E rc \in ReturnCodes : batch' = AfterJob(batch, rc)
  /\ UNCHANGED <<ensured, llm, runVars, textVars>>

\* lines 154-159: the summary after the last job
Summary ==
  /\ batch.pc = "for"
  /\ batch.next > Len(batch.jobs)
  /\ batch' = Exit(batch, IF batch.failures # 0 THEN 1 ELSE 0)
  /\ UNCHANGED <<ensured, llm, runVars, textVars>>

NextBatch ==
  \/ LoadFails
  \/ LoadJobs
  \/ ValidatePaths
  \/ StartJob
  \/ DryRunJob
  \/ JobEnds
  \/ Summary

SpecBatch == InitBatch /\ [][NextBatch]_vars

\* the run_job calls that returned a non-zero code
FailedJobs == {i \in DOMAIN batch.rcs : batch.rcs[i] # 0}

\* main has left the job loop: by sys.exit(rc) or after the summary
BatchRan == batch.pc = "exit" /\ batch.started # <<>>

\* C19: the batch runner exits with code 0 when every job succeeds and with a
\* non-zero code if any job fails, unless --continue-on-error is given, when
\* failed jobs do not make the exit code non-zero; an empty or all-invalid job
\* list exits 0.
C19_ExitCodes ==
  /\ BatchRan =>
       /\ (Len(batch.rcs) = Len(batch.jobs) /\ FailedJobs = {}) => batch.exit_code = 0
       /\ (FailedJobs # {} /\ ~batch.continue_on_error) =>
            ExitStatus(batch.exit_code) # 0
       /\ (FailedJobs # {} /\ batch.continue_on_error) => batch.exit_code = 0
  /\ (batch.pc = "exit" /\ batch.csv = "ok" /\ LoadedJobs(batch.rows) = <<>>) =>
       batch.exit_code = 0

\* C20: jobs run one at a time in the order of the CSV; without
\* --continue-on-error the first job that returns a non-zero code ends the batch
\* with that code and no later job is started; with --continue-on-error every
\* job is started exactly once and failures is the number of jobs that returned
\* non-zero.
C20_OrderAndFailures ==
  /\ batch.started = SubSeq(batch.jobs, 1, Len(batch.started))
  /\ Len(batch.started) - Len(batch.rcs) = (IF batch.pc = "run_job" THEN 1 ELSE 0)
  /\ batch.failures = Cardinality(FailedJobs)
  /\ ~batch.continue_on_error =>
       \A i \in FailedJobs :
         /\ batch.pc = "exit"
         /\ batch.exit_code = batch.rcs[i]
         /\ i = Len(batch.started)
         /\ \A j \in 1..(i - 1) : batch.rcs[j] = 0
  /\ (BatchRan /\ batch.continue_on_error) =>
       /\ batch.started = batch.jobs
       /\ Len(batch.rcs) = Len(batch.jobs)
       /\ batch.exit_code = (IF FailedJobs = {} THEN 0 ELSE 1)

\* C20 witness: with --continue-on-error the first of two jobs has returned 2;
\* the second was started all the same, one failure was counted, and the batch
\* has ended with code 1
C20_Witness ==
  /\ batch.pc = "exit"
  /\ batch.continue_on_error
  /\ batch.jobs = <<1, 2>>
  /\ batch.started = <<1, 2>>
  /\ batch.rcs = <<2, 0>>
  /\ batch.failures = 1
  /\ batch.exit_code = 1

\* the loaded jobs whose posting or resume path does not exist
MissingPaths ==
  {i \in DOMAIN batch.rows :
     batch.rows[i].valid /\ ~(batch.rows[i].posting /\ batch.rows[i].resume)}

\* C21: batch preflight: no job is executed, not even with --dry-run or
\* --continue-on-error, unless the posting file and the resume file of every
\* loaded job exist; if any is missing the runner exits with code 1 before the
\* first job starts.
C21_Preflight ==
  /\ (batch.started # <<>> \/ batch.pc \in {"for", "run_job"}) =>
       MissingPaths = {}
  /\ (batch.csv = "ok" /\ MissingPaths # {}) =>
       /\ batch.started = <<>> /\ batch.executed = <<>> /\ batch.rcs = <<>>
       /\ batch.pc \in {"load", "validate", "exit"}
       /\ batch.pc = "exit" => batch.exit_code = 1

\* C21 witness: with --dry-run and --continue-on-error, the resume of the second
\* of two loaded jobs is missing; the batch has ended with code 1 and no job was
\* started
C21_Witness ==
  /\ batch.pc = "exit"
  /\ batch.dry_run /\ batch.continue_on_error
  /\ batch.jobs = <<1, 2>>
  /\ batch.rows[1].posting /\ batch.rows[1].resume
  /\ batch.rows[2].posting /\ ~batch.rows[2].resume
  /\ batch.exit_code = 1
  /\ batch.started = <<>>

----------------------------------------------------------------------------
(* SpecFolder: output_folder on every company and role name, followed by    *)
(* write_artifacts: ensure_dir(out_dir) and the four files.                 *)

\* the characters of the names: a letter, the ".", and two characters that are
\* neither letter nor digit, one of them the "-" that strip("-") removes
NameChars == {"A", ".", "-", "_"}

\* the company and role names
Names == UNION {[1..n -> NameChars] : n \in 0..MaxName}

\* postprocess_and_write is about to call output_folder(company, role)
InitFolder ==
  /\ InitNoText
  /\ InitSide
  /\ clock \in 0..MaxClock
  /\ dirs = {}
  /\ files = <<>>
  /\ run \in {[r \in Runs |->
                 IF r = 1 THEN [IdleRun EXCEPT !.company = c, !.role = ro]
                          ELSE IdleRun] : c \in Names, ro \in Names}

\* line 146: out_dir = output_folder(company, role); then write_artifacts
OutputFolder(r) ==
  /\ run[r].pc = "idle"
  /\ run' = [run EXCEPT ![r] =
       [ @ EXCEPT !.pc = Steps[1],
                  !.out_dir = output_folder(run[r].company, run[r].role, clock),
                  !.read = clock ]]
  /\ UNCHANGED <<clock, dirs, files, textVars, sideVars>>

NextFolder ==
  \/ OutputFolder(1)
  \/ EnsureOutDir(1)
  \/ WriteArtifact(1)

SpecFolder == InitFolder /\ [][NextFolder]_vars

\* letters, digits, "-" and "_"
FolderChars ==
  Range(UpperLetters) \cup Range(LowerLetters) \cup Range(Digits) \cup {"-", "_"}

\* the last component of a path
LastComponent(path) == path[Len(path)]

\* C23: for every company and role, the last component of the path returned by
\* output_folder is made only of letters, digits, "-" and "_", so ensure_dir
\* does not take it for a file path: write_artifacts creates the output
\* directory itself, not only its parent, and none of the four file writes is
\* made, or fails, while the directory is missing.
C23_FolderIsDirectory ==
  \A r \in Runs :
    run[r].pc # "idle" =>
      /\ Range(LastComponent(run[r].out_dir)) \subseteq FolderChars
      /\ ~HasExtension(run[r].out_dir)
      /\ EnsuredDir(run[r].out_dir) = run[r].out_dir
      /\ run[r].pc \in ArtifactSteps \cup {StepAfter("meta")} =>
           run[r].out_dir \in dirs
      /\ run[r].failed_at \in ArtifactSteps => run[r].out_dir \in dirs

\* C23 witness: for the company "A." and the role ".A" the folder is
\* outputs/A_A_<timestamp>; ensure_dir has created it and the four files are in
\* it
C23_Witness ==
  /\ run[1].company = <<"A", ".">>
  /\ run[1].role = <<".", "A">>
  /\ run[1].pc = StepAfter("meta")
  /\ SubSeq(LastComponent(run[1].out_dir), 1, 4) = <<"A", "_", "A", "_">>
  /\ run[1].out_dir \in dirs
  /\ \A st \in ArtifactSteps : ArtifactPath(1, st) \in DOMAIN files

----------------------------------------------------------------------------
(* SpecStreamlit: steps 5 and 6 of the button handler of streamlit_app.py:  *)
(* the model output of the dry-run branch or of the model call, then        *)
(* postprocess_and_write.  The handler is caller 1.                         *)

\* lines 230-237: the fabricated response of the dry run
DRY_RUN_OUTPUT ==
  <<"#"," ","B","u","l","l","e","t","s","\n","-"," ","B","u","i","l","t"," ",
    "L","i","g","h","t","G","B","M"," ","m","o","d","e","l"," ","o","n"," ",
    "2","M","+"," ","S","P","A","R","C","S"," ","r","o","w","s"," ","(","m",
    "a","p","s"," ","t","o",":"," ","M","L"," ","m","o","d","e","l","s",",",
    " ","P","y","t","h","o","n",")","\n","\n","#"," ","C","o","v","e","r"," ",
    "L","e","t","t","e","r","\n","D","e","a","r"," ","H","i","r","i","n","g",
    " ","T","e","a","m",","," ","t","h","i","s"," ","i","s"," ","a"," ","d",
    "r","y","-","r","u","n"," ","p","l","a","c","e","h","o","l","d","e","r",
    ".","\n","\n","#"," ","S","k","i","l","l","s"," ","G","a","p","s","\n",
    "-"," ","D","e","e","p"," ","l","e","a","r","n","i","n","g"," ","e","x",
    "p","e","r","i","e","n","c","e"," ",Arrow," ","T","a","k","e"," ","F","a",
    "s","t","A","I"," ","c","o","u","r","s","e","\n">>

\* result['text'] of a model call: outputs with the "##" headings
LlmOutputs ==
  { SegBullets \o SegItems \o SegLetter \o SegProse \o SegGaps \o SegItem,
    TextLongBullet }

\* the role and company of the form
FormInputs == {[company |-> j.company, role |-> j.role] : j \in Jobs}

\* lines 227-239: dry_run is ticked
DryRunBranch ==
  /\ step = "start"
  /\ text' = DRY_RUN_OUTPUT
  /\ step' = "dry_run"
  /\ UNCHANGED <<direct, sections, regions, gated, target, runVars, sideVars>>

\* lines 240-279: the model is called and answers
ModelBranch ==
  /\ step = "start"
  /\ text' \in LlmOutputs
  /\ step' = "model"
  /\ UNCHANGED <<direct, sections, regions, gated, target, runVars, sideVars>>

\* line 288 and postprocess.py lines 138-146: postprocess_and_write is called
\* with model_output; split, gates, out_dir
CallPostprocess(r) ==
  /\ step \in {"dry_run", "model"}
  /\ run[r].pc = "idle"
  /\ sections' = split_sections(text)
  /\ gated' = [ bullets |-> enforce_bullets_rules(sections'.bullets),
                letter  |-> enforce_letter_rules(sections'.letter,
                              TARGET_MIN_DEFAULT, TARGET_MAX_DEFAULT),
                gaps    |-> enforce_gaps_rules(sections'.gaps) ]
  /\ \E form \in FormInputs :
       run' = [run EXCEPT ![r] =
         [ @ EXCEPT !.pc = "metadata",
                    !.company = form.company,
                    !.role = form.role,
                    !.bullets = gated'.bullets,
                    !.letter = gated'.letter,
                    !.gaps = gated'.gaps,
                    !.out_dir = output_folder(form.company, form.role, clock),
                    !.read = clock ]]
  /\ UNCHANGED <<text, step, direct, regions, target, clock, dirs, files,
                 sideVars>>

NextStreamlit ==
  \/ DryRunBranch
  \/ ModelBranch
  \/ Tick
  \/ CallPostprocess(1)
  \/ BuildMetadata(1)
  \/ EnsureOutDir(1)
  \/ WriteArtifact(1)
  \/ EnsurePointerDir(1)
  \/ WritePointer(1)

SpecStreamlit == Init /\ [][NextStreamlit]_vars

\* what write_artifacts leaves in the file of section k when the section is
\* empty: the heading line, then the editor note of the gate, if it has one,
\* then a line boundary
EmptySectionFile(k) ==
  CASE k = "bullets" -> HEAD_BULLETS \o BULLETS_NOTE \o <<"\n">>
    [] k = "letter"  -> HEAD_LETTER \o <<"\n">>
    [] k = "gaps"    -> HEAD_GAPS \o GAPS_NOTE \o <<"\n">>

\* C24: in the dry-run path of the Streamlit demo the fabricated model output
\* has single-"#" headings, which no section pattern matches: split_sections
\* returns three empty strings and the artifacts hold none of the placeholder
\* text; under their headings bullets.md and skills_gaps.md hold only the one
\* editor-note line and cover_letter.md holds nothing.
C24_DryRunPlaceholdersLost ==
  (step = "dry_run" /\ run[1].pc # "idle") =>
    /\ \A k \in Keys : \A p \in 1..Len(text) : MatchHeading(k, text, p) = 0
    /\ sections = [bullets |-> <<>>, letter |-> <<>>, gaps |-> <<>>]
    /\ \A k \in Keys :
         ArtifactPath(1, k) \in run[1].wrote =>
           files[ArtifactPath(1, k)].body = EmptySectionFile(k)

\* C24 witness: the dry run has returned; the three section files are on disk
\* with the heading and the editor notes only
C24_Witness ==
  /\ step = "dry_run"
  /\ text = DRY_RUN_OUTPUT
  /\ run[1].pc = "returned"
  /\ \A k \in Keys :
       /\ ArtifactPath(1, k) \in DOMAIN files
       /\ files[ArtifactPath(1, k)].complete
       /\ files[ArtifactPath(1, k)].body = EmptySectionFile(k)

====
